---- MODULE Spec2Model ----
(***************************************************************************)
(* Model of the transport-and-materialization core of caplena-python:     *)
(*   src/caplena/api.py                     ApiVersion, ApiRequestor      *)
(*   src/caplena/http/http_response.py      HttpResponse                  *)
(*   src/caplena/endpoints/base_endpoint.py BaseController, BaseObject,   *)
(*                                          BaseResource                  *)
(* Each component has its own specification (SpecHeaders, SpecDispatch,   *)
(* SpecResponse, SpecObject, SpecIterator); the variables of the other    *)
(* components stay at their idle values.                                  *)
(***************************************************************************)
EXTENDS Integers, Sequences, FiniteSets, TLC

VARIABLES
    h_in,      \* build_request_headers: the caller's `headers` argument
    h_key,     \* build_request_headers: the `api_key` argument
    h_ver,     \* build_request_headers: the `api_version` argument (enum member name)
    h_out,     \* build_request_headers: outcome of the call
    d_call,    \* dispatcher: the verb call made last
    d_sent,    \* dispatcher: the request handed to the transport by that call
    d_out,     \* dispatcher: outcome of that call
    r_resp,    \* an HttpResponse instance (its attributes)
    r_parses,  \* number of json.loads attempts on r_resp.text
    r_log,     \* outcomes of the accesses of r_resp.json, oldest first
    r_out,     \* outcome of the last operation on r_resp
    root,      \* a Resource Object with the objects it owns (NoInstance before construction)
    o_given,   \* per object path: the controller attached last ("<None>" if none)
    o_written, \* per object path: mutable fields written since materialization
    o_last,    \* the last operation on the tree: its arguments and outcome
    it,        \* the Page Iterator's state
    it_src,    \* the paginated source: page sizes and the caller's limit
    it_log     \* page indexes handed to the fetcher, and the items yielded

vars == <<h_in, h_key, h_ver, h_out, d_call, d_sent, d_out, r_resp, r_parses,
          r_log, r_out, root, o_given, o_written, o_last, it, it_src, it_log>>

h_vars == <<h_in, h_key, h_ver, h_out>>
d_vars == <<d_call, d_sent, d_out>>
r_vars == <<r_resp, r_parses, r_log, r_out>>
o_vars == <<root, o_given, o_written, o_last>>
it_vars == <<it, it_src, it_log>>

----------------------------------------------------------------------------
(* Values.  Every Python value is a record [t, v]: t is the type tag.      *)

None == [t |-> "none", v |-> 0]
Scalar(n) == [t |-> "s", v |-> n]
List(s) == [t |-> "l", v |-> s]
Map(f) == [t |-> "m", v |-> f]
Obj(o) == [t |-> "o", v |-> o]

EmptyMap == [k \in {} |-> None]

\* d[k] = x on a Python dict
SetItem(d, k, x) == [y \in DOMAIN d \cup {k} |-> IF y = k THEN x ELSE d[y]]

\* Outcome of a call: a returned value, or a raised exception.
Return(x) == [exc |-> "", val |-> x]
Raise(e, x) == [exc |-> e, val |-> x]

NotCalled == Raise("<not called>", None)

----------------------------------------------------------------------------
(* src/caplena/api.py: ApiVersion and ApiRequestor.build_request_headers   *)

\* str.replace(old, new): every non-overlapping occurrence, left to right
RECURSIVE str_replace(_, _, _)
str_replace(s, old, new) ==
    IF Len(s) < Len(old) \/ Len(s) = 0 THEN s
    ELSE IF SubSeq(s, 1, Len(old)) = old
         THEN new \o str_replace(SubSeq(s, Len(old) + 1, Len(s)), old, new)
         ELSE SubSeq(s, 1, 1) \o str_replace(SubSeq(s, 2, Len(s)), old, new)

\* The members of the enum ApiVersion, by name
ApiVersion == {"DEFAULT", "VER_2021_12_01"}

\* ApiVersion.version (property)
ApiVersion_version(name) ==
    IF name # "DEFAULT"
    THEN Return(str_replace(str_replace(name, "VER_", ""), "_", "-"))
    ELSE Raise("ValueError", "")

\* Helpers.get_user_agent(identifier=self._http_client.identifier)
get_user_agent == "caplena-python/requests"

NoKey == "<None>"

\* ApiRequestor.build_request_headers(headers, api_version, api_key);
\* headers is [given, map]: given = FALSE stands for headers=None
build_request_headers(headers, api_version, api_key) ==
    LET h0 == IF ~headers.given THEN [k \in {} |-> ""] ELSE headers.map
        h1 == IF "Accept" \in DOMAIN h0 THEN h0 ELSE SetItem(h0, "Accept", "application/json")
        h2 == SetItem(h1, "User-Agent", get_user_agent)
        h3 == IF api_key # NoKey THEN SetItem(h2, "Caplena-API-Key", api_key) ELSE h2
        h4 == IF api_version # "DEFAULT"
              THEN SetItem(h3, "Caplena-API-Version", ApiVersion_version(api_version).val)
              ELSE h3
    IN  h4

ReservedHeaders == {"User-Agent", "Caplena-API-Key", "Caplena-API-Version"}
HeaderNames == ReservedHeaders \cup {"Accept", "X-Trace"}
CallerValues == {"evil", "other"}
ApiKeys == {NoKey, "real"}
CallerMaps == UNION {[S -> CallerValues] : S \in SUBSET HeaderNames}
CallerHeaders == {[given |-> FALSE, map |-> [k \in {} |-> ""]]}
                 \cup {[given |-> TRUE, map |-> m] : m \in CallerMaps}

NoHeaders == [done |-> FALSE, headers |-> [k \in {} |-> ""]]

h_Idle ==
    /\ h_in = [given |-> FALSE, map |-> [k \in {} |-> ""]]
    /\ h_key = NoKey
    /\ h_ver = "DEFAULT"
    /\ h_out = NoHeaders

\* One call of build_request_headers, with the arguments InitHeaders drew
BuildRequestHeaders ==
    /\ ~h_out.done
    /\ h_out' = [done |-> TRUE, headers |-> build_request_headers(h_in, h_ver, h_key)]
    /\ UNCHANGED <<h_in, h_key, h_ver, d_vars, r_vars, o_vars, it_vars>>

InitHeadersInputs ==
    /\ h_in \in CallerHeaders
    /\ h_key \in ApiKeys
    /\ h_ver \in ApiVersion
    /\ h_out = NoHeaders

----------------------------------------------------------------------------
(* src/caplena/http/http_response.py: HttpResponse                         *)

\* The str | None values of `text`.  A JSON document is kept as the value it
\* encodes; "garbage" is a non-empty text that is no JSON document.
NoText == [kind |-> "none", doc |-> None]
EmptyText == [kind |-> "empty", doc |-> None]
Garbage == [kind |-> "garbage", doc |-> None]
JsonText(doc) == [kind |-> "json", doc |-> doc]

\* bool(text): None and "" are falsy
Truthy(text) == text.kind \notin {"none", "empty"}

\* json.loads(text)
json_loads(text) ==
    IF text.kind = "json" THEN Return(text.doc) ELSE Raise("JSONDecodeError", None)

\* An attribute that was never assigned
Unset == [t |-> "unset", v |-> 0]

\* HttpResponse.__init__: assigns status_code, reason, text and headers,
\* and nothing else: the instance has no attribute _json
HttpResponse_init(status_code, reason, text, headers) ==
    [status_code |-> status_code, reason |-> reason, text |-> text,
     headers |-> headers, _json |-> Unset]

\* HttpResponse.json (property): [out, self, loads], the outcome, the instance
\* afterwards and the number of json.loads calls made
HttpResponse_json(self) ==
    IF self._json = Unset
    THEN \* reading self._json raises; the class has no __getattr__
         [out |-> Raise("AttributeError", None), self |-> self, loads |-> 0]
    ELSE IF self._json # None
    THEN [out |-> Return(self._json), self |-> self, loads |-> 0]
    ELSE IF Truthy(self.text)
    THEN LET parsed == json_loads(self.text)
         IN  IF parsed.exc # ""
             THEN [out |-> parsed, self |-> self, loads |-> 1]
             ELSE \* the branch assigns and falls off the end: returns None
                  [out |-> Return(None), self |-> [self EXCEPT !._json = parsed.val],
                   loads |-> 1]
    ELSE [out |-> Return(None), self |-> self, loads |-> 0]

----------------------------------------------------------------------------
(* src/caplena/endpoints/base_endpoint.py: BaseObject and BaseResource     *)

\* Three resource classes stand for the concrete classes an endpoint
\* declares: a Project (a BaseResource) owns a Column in `owner` and a list
\* of Metas in `columns`; a Column owns a Meta in `meta`.
Classes == {"Project", "Column", "Meta"}

\* cls.__fields__
Fields(cls) ==
    CASE cls = "Project" -> {"name", "lang", "owner", "columns"}
      [] cls = "Column" -> {"label", "meta"}
      [] cls = "Meta" -> {"v"}

\* cls.__mutable__
Mutable(cls) ==
    CASE cls = "Project" -> {"name", "lang"}
      [] cls = "Column" -> {"label"}
      [] cls = "Meta" -> {}

\* Whether cls derives from BaseResource
IsResource(cls) == cls = "Project"

\* The class of the nested objects a field holds ("" for a scalar field)
NestedClass(cls, field) ==
    CASE cls = "Project" /\ field = "owner" -> "Column"
      [] cls = "Project" /\ field = "columns" -> "Meta"
      [] cls = "Column" /\ field = "meta" -> "Meta"
      [] OTHER -> ""

NoController == "<None>"
Controllers == {"c1", "c2"}
NoId == [t |-> "none", v |-> 0]

\* Helpers.partial_dict(attrs, keys)
partial_dict(attrs, keys) == [k \in DOMAIN attrs \cap keys |-> attrs[k]]

\* refresh_from as it would be if it kept the dirty set
refresh_from_keeps_dirty(self, attrs) ==
    [self EXCEPT !._attrs = partial_dict(attrs, Fields(self.cls))]

\* BaseObject.refresh_from(attrs=attrs)
refresh_from(self, attrs) ==
    [self EXCEPT !._attrs = partial_dict(attrs, Fields(self.cls)),
                 !._unpersisted_attributes = {}]

\* BaseObject.__init__(**attrs); an instance is the record of its attributes
\* (_id: NoId until BaseResource.__init__ assigns it)
BaseObject_init(cls, attrs) ==
    refresh_from([cls |-> cls, _controller |-> NoController, _attrs |-> EmptyMap,
                  _unpersisted_attributes |-> {}, _id |-> NoId],
                 attrs)

\* BaseResource.__init__(id, **attrs)
BaseResource_init(cls, id, attrs) == [BaseObject_init(cls, attrs) EXCEPT !._id = id]

\* BaseObject._recursive_controller_set(attr, value=value): the instance
\* afterwards.  For a nested object it assigns self._controller, not the
\* nested object's.
RECURSIVE recursive_controller_set(_, _, _)
recursive_controller_set(self, attr, value) ==
    IF attr.t = "o" THEN [self EXCEPT !._controller = value]
    ELSE IF attr.t = "l"
    THEN LET RECURSIVE each(_, _)
             each(me, i) == IF i > Len(attr.v) THEN me
                            ELSE each(recursive_controller_set(me, attr.v[i], value), i + 1)
         IN  each(self, 1)
    ELSE self

\* BaseObject.controller (setter): [out, self].  self._attrs[field] raises
\* KeyError for a declared field that was never stored.
RECURSIVE controller_fields(_, _, _)
controller_fields(self, fields, value) ==
    IF fields = {} THEN self
    ELSE LET f == CHOOSE x \in fields : TRUE
         IN  controller_fields(recursive_controller_set(self, self._attrs[f], value),
                               fields \ {f}, value)

controller_set(self, value) ==
    LET s1 == [self EXCEPT !._controller = value]
    IN  IF Fields(self.cls) \subseteq DOMAIN self._attrs
        THEN [out |-> Return(None), self |-> controller_fields(s1, Fields(self.cls), value)]
        ELSE [out |-> Raise("KeyError", None), self |-> s1]

\* The getter as it would be without the check for a missing controller
controller_get_unchecked(self) == Return(self._controller)

\* BaseObject.controller (getter)
controller_get(self) ==
    IF self._controller = NoController THEN Raise("ValueError", NoController)
    ELSE Return(self._controller)

\* __setattr__ as it would be if it recorded the name before the mutability check
setattr_marks_first(self, name, value) ==
    IF name \in Fields(self.cls) /\ name \in Mutable(self.cls)
    THEN [out |-> Return(None),
          self |-> [self EXCEPT
                      !._unpersisted_attributes = @ \cup {name},
                      !._attrs = SetItem(@, name, value)]]
    ELSE IF name \in Fields(self.cls)
    THEN [out |-> Raise("AttributeError", None),
          self |-> [self EXCEPT !._unpersisted_attributes = @ \cup {name}]]
    ELSE [out |-> Return(None), self |-> self]

\* BaseObject.__setattr__(name, value): [out, self].  An undeclared name
\* becomes a plain attribute of the instance, outside _attrs and the dirty
\* set; plain attributes are not part of the record.
setattr(self, name, value) ==
    IF name \in Fields(self.cls) /\ name \in Mutable(self.cls)
    THEN [out |-> Return(None),
          self |-> [self EXCEPT
                      !._unpersisted_attributes = @ \cup {name},
                      !._attrs = SetItem(@, name, value)]]
    ELSE IF name \in Fields(self.cls)
    THEN [out |-> Raise("AttributeError", None), self |-> self]
    ELSE [out |-> Return(None), self |-> self]

\* BaseObject.__delattr__(name): [out, self]
delattr(self, name) == [out |-> Raise("ValueError", None), self |-> self]

\* BaseObject.dict / _recursive_dict / BaseResource.dict.  dict_raises: a
\* declared field is missing from _attrs, here or in a nested object.
RECURSIVE dict_raises(_)
RECURSIVE attr_raises(_)
attr_raises(attr) ==
    IF attr.t = "o" THEN dict_raises(attr.v)
    ELSE IF attr.t = "l" THEN \E i \in 1..Len(attr.v) : attr_raises(attr.v[i])
    ELSE FALSE

dict_raises(self) ==
    \/ ~(Fields(self.cls) \subseteq DOMAIN self._attrs)
    \/ \E f \in Fields(self.cls) : attr_raises(self._attrs[f])

RECURSIVE dict_value(_)
RECURSIVE recursive_dict(_)
\* _recursive_dict as it would be without the branch for lists
recursive_dict_flat(attr) ==
    IF attr.t = "o" THEN Map(dict_value(attr.v)) ELSE attr

recursive_dict(attr) ==
    IF attr.t = "o" THEN Map(dict_value(attr.v))
    ELSE IF attr.t = "l" THEN List([i \in 1..Len(attr.v) |-> recursive_dict(attr.v[i])])
    ELSE attr

dict_value(self) ==
    LET resource == [f \in Fields(self.cls) |-> recursive_dict(self._attrs[f])]
    IN  IF IsResource(self.cls) THEN SetItem(resource, "id", self._id) ELSE resource

dict(self) == IF dict_raises(self) THEN Raise("KeyError", None) ELSE Return(Map(dict_value(self)))

\* parse_obj of the concrete classes and BaseObject.build_obj(obj, controller=...).
\* A concrete parse_obj builds the nested objects of its typed fields with
\* build_obj(raw, controller=None) and then calls cls(**obj).
RECURSIVE build_obj(_, _, _)
RECURSIVE parse_attrs(_, _)
RECURSIVE nested_build(_, _)
nested_build(nc, raw) ==
    IF raw.t = "m"
    THEN LET r == build_obj(nc, raw, NoController)
         IN  IF r.exc # "" THEN Raise(r.exc, None) ELSE Return(Obj(r.val))
    ELSE IF raw.t = "l"
    THEN LET rs == [i \in 1..Len(raw.v) |-> nested_build(nc, raw.v[i])]
         IN  IF \E i \in 1..Len(raw.v) : rs[i].exc # ""
             THEN Raise(rs[CHOOSE i \in 1..Len(raw.v) : rs[i].exc # ""].exc, None)
             ELSE Return(List([i \in 1..Len(raw.v) |-> rs[i].val]))
    ELSE Return(raw)

parse_attrs(cls, obj) ==
    LET keys == IF IsResource(cls) THEN DOMAIN obj.v \ {"id"} ELSE DOMAIN obj.v
        built == [k \in keys |->
                    IF NestedClass(cls, k) # "" THEN nested_build(NestedClass(cls, k), obj.v[k])
                    ELSE Return(obj.v[k])]
    IN  IF \E k \in keys : built[k].exc # ""
        THEN Raise(built[CHOOSE k \in keys : built[k].exc # ""].exc, EmptyMap)
        ELSE Return([k \in keys |-> built[k].val])

parse_obj(cls, obj) ==
    LET attrs == parse_attrs(cls, obj)
    IN  IF attrs.exc # "" THEN Raise(attrs.exc, None)
        ELSE IF IsResource(cls)
        THEN IF "id" \in DOMAIN obj.v
             THEN Return(BaseResource_init(cls, obj.v["id"], attrs.val))
             ELSE Raise("TypeError", None)
        ELSE Return(BaseObject_init(cls, attrs.val))

build_obj(cls, obj, controller) ==
    LET instance == parse_obj(cls, obj)
    IN  IF instance.exc # "" THEN instance
        ELSE LET r == controller_set(instance.val, controller)
             IN  IF r.out.exc # "" THEN r.out ELSE Return(r.self)

(* Paths into the tree of objects: a step names a declared field and, for a
   list field, the position of the element (0 when the field holds the
   object itself). *)
RECURSIVE ObjAt(_, _)
ObjAt(o, path) ==
    IF path = <<>> THEN o
    ELSE LET st == Head(path)
             a == o._attrs[st.f]
         IN  ObjAt(IF st.i = 0 THEN a.v ELSE a.v[st.i].v, Tail(path))

RECURSIVE Replace(_, _, _)
Replace(o, path, new) ==
    IF path = <<>> THEN new
    ELSE LET st == Head(path)
             a == o._attrs[st.f]
         IN  IF st.i = 0
             THEN [o EXCEPT !._attrs[st.f] = Obj(Replace(a.v, Tail(path), new))]
             ELSE [o EXCEPT !._attrs[st.f] =
                     List([a.v EXCEPT ![st.i] = Obj(Replace(a.v[st.i].v, Tail(path), new))])]

RECURSIVE ObjPaths(_)
ObjPaths(o) ==
    {<<>>}
    \cup UNION {
           LET a == o._attrs[f]
           IN  IF a.t = "o" THEN {<<[f |-> f, i |-> 0]>> \o q : q \in ObjPaths(a.v)}
               ELSE IF a.t = "l"
               THEN UNION {IF a.v[i].t = "o"
                           THEN {<<[f |-> f, i |-> i]>> \o q : q \in ObjPaths(a.v[i].v)}
                           ELSE {} : i \in 1..Len(a.v)}
               ELSE {}
           : f \in DOMAIN o._attrs}

\* p is q or lies below q
Under(p, q) == Len(p) >= Len(q) /\ SubSeq(p, 1, Len(q)) = q

(* The raw mappings materialized: a name of NameValues, k of 0..MaxCols list
   elements, and a variant: "exact" holds the declared fields only, "unknown"
   adds an undeclared key at every level, "missing" lacks the declared field
   `lang`. *)
MaxCols == 1
NameValues == {1, 2}
\* The values written to fields after materialization
WriteValues == {Scalar(2)}
Variants == {"exact", "unknown", "missing"}
Str(x) == [t |-> "str", v |-> x]

Only(rec, keys) == [k \in keys |-> rec[k]]

RawMeta(n, junk) ==
    Map(Only([v |-> Scalar(n), junk |-> Scalar(n)], IF junk THEN {"v", "junk"} ELSE {"v"}))

RawColumn(n, junk) ==
    Map(Only([label |-> Scalar(n), meta |-> RawMeta(n, junk), junk |-> Scalar(n)],
             IF junk THEN {"label", "meta", "junk"} ELSE {"label", "meta"}))

RawProject(n, k, variant) ==
    LET junk == variant = "unknown"
        full == [id |-> Str("r1"), name |-> Scalar(n), lang |-> Scalar(1),
                 owner |-> RawColumn(1, junk),
                 columns |-> List([i \in 1..k |-> RawMeta(i, junk)]),
                 junk |-> Scalar(n)]
    IN  Map(Only(full, CASE variant = "exact" -> {"id", "name", "lang", "owner", "columns"}
                         [] variant = "unknown" -> DOMAIN full
                         [] variant = "missing" -> {"id", "name", "owner", "columns"}))

RawFor(cls) ==
    CASE cls = "Project" ->
           {RawProject(n, k, x) : n \in NameValues, k \in 0..MaxCols, x \in Variants}
      [] cls = "Column" -> {RawColumn(1, junk) : junk \in BOOLEAN}
      [] cls = "Meta" -> {RawMeta(1, junk) : junk \in BOOLEAN}

\* Names written and deleted: the declared fields and one undeclared name
NamesOf(cls) == Fields(cls) \cup {"note"}

\* No instance has been constructed yet
NoInstance ==
    [cls |-> "", _controller |-> NoController, _attrs |-> EmptyMap,
     _unpersisted_attributes |-> {}, _id |-> NoId]

\* The objects at hand, by path
Live == IF root = NoInstance THEN {} ELSE ObjPaths(root)

Outcome(op, path, arg, out) ==
    [op |-> op, path |-> path, arg |-> arg, exc |-> out.exc]

InitObject ==
    /\ root = NoInstance
    /\ o_given = [p \in {} |-> NoController]
    /\ o_written = [p \in {} |-> {}]
    /\ o_last = Outcome("", <<>>, "", Return(None))

\* Project(**raw): construction without build_obj; no controller is attached
Construct ==
    /\ root = NoInstance
    /\ \E raw \in RawFor("Project") :
        LET r == parse_obj("Project", raw)
        IN  /\ r.exc = ""
            /\ root' = r.val
            /\ o_given' = [p \in ObjPaths(r.val) |-> NoController]
            /\ o_written' = [p \in ObjPaths(r.val) |-> {}]
            /\ o_last' = Outcome("init", <<>>, raw, r)
    /\ UNCHANGED <<h_vars, d_vars, r_vars, it_vars>>

\* Project.build_obj(raw, controller=c); when it raises there is no instance
BuildObj ==
    /\ root = NoInstance
    /\ \E raw \in RawFor("Project"), c \in Controllers \cup {NoController} :
        LET r == build_obj("Project", raw, c)
        IN  /\ o_last' = Outcome("build_obj", <<>>, [raw |-> raw, controller |-> c], r)
            /\ IF r.exc # ""
               THEN UNCHANGED <<root, o_given, o_written>>
               ELSE /\ root' = r.val
                    /\ o_given' = [p \in ObjPaths(r.val) |->
                                     IF p = <<>> THEN c ELSE NoController]
                    /\ o_written' = [p \in ObjPaths(r.val) |-> {}]
    /\ UNCHANGED <<h_vars, d_vars, r_vars, it_vars>>

\* obj.refresh_from(attrs=...) on the object at path p, with the attributes a
\* concrete class prepares from a raw mapping: the objects below p are
\* replaced by new ones
RefreshFrom ==
    \E p \in Live :
        \E raw \in RawFor(ObjAt(root, p).cls) :
            LET self == ObjAt(root, p)
                attrs == parse_attrs(self.cls, raw)
                new == Replace(root, p, refresh_from(self, attrs.val))
            IN  /\ attrs.exc = ""
                /\ root' = new
                /\ o_given' = [q \in ObjPaths(new) |->
                                 IF Under(q, p) /\ q # p THEN NoController ELSE o_given[q]]
                /\ o_written' = [q \in ObjPaths(new) |->
                                   IF Under(q, p) THEN {} ELSE o_written[q]]
                /\ o_last' = Outcome("refresh_from", p, raw, Return(None))
                /\ UNCHANGED <<h_vars, d_vars, r_vars, it_vars>>

\* obj.<name> = value
SetAttr ==
    \E p \in Live :
        \E name \in NamesOf(ObjAt(root, p).cls), value \in WriteValues :
            LET r == setattr(ObjAt(root, p), name, value)
            IN  /\ root' = Replace(root, p, r.self)
                /\ o_written' = IF r.out.exc = "" /\ name \in Mutable(ObjAt(root, p).cls)
                                THEN [o_written EXCEPT ![p] = @ \cup {name}]
                                ELSE o_written
                /\ o_last' = Outcome("setattr", p, [name |-> name, value |-> value], r.out)
                /\ UNCHANGED <<o_given, h_vars, d_vars, r_vars, it_vars>>

\* del obj.<name>; the outcome is the same for every object and name, and
\* o_last keeps neither
DelAttr ==
    \E p \in Live :
        \E name \in NamesOf(ObjAt(root, p).cls) :
            LET r == delattr(ObjAt(root, p), name)
            IN  /\ root' = Replace(root, p, r.self)
                /\ o_last' = Outcome("delattr", <<>>, "", r.out)
                /\ UNCHANGED <<o_given, o_written, h_vars, d_vars, r_vars, it_vars>>

\* obj.controller = c on any object of the tree
SetController ==
    \E p \in Live, c \in Controllers :
        LET r == controller_set(ObjAt(root, p), c)
        IN  /\ root' = Replace(root, p, r.self)
            /\ o_given' = [o_given EXCEPT ![p] = c]
            /\ o_last' = Outcome("controller_set", p, c, r.out)
            /\ UNCHANGED <<o_written, h_vars, d_vars, r_vars, it_vars>>

\* obj.controller = c on the object constructed, not on those it owns
SetRootController ==
    /\ root # NoInstance
    /\ \E c \in Controllers :
        LET r == controller_set(root, c)
        IN  /\ root' = r.self
            /\ o_given' = [o_given EXCEPT ![<<>>] = c]
            /\ o_last' = Outcome("controller_set", <<>>, c, r.out)
    /\ UNCHANGED <<o_written, h_vars, d_vars, r_vars, it_vars>>

----------------------------------------------------------------------------
(* src/caplena/api.py: ApiRequestor.request_raw and the verb methods;       *)
(* src/caplena/endpoints/base_endpoint.py: BaseController                   *)

StatusCodes == {200, 201, 204, 404, 500}

Reason(code) ==
    CASE code = 200 -> "OK"
      [] code = 201 -> "Created"
      [] code = 204 -> "No Content"
      [] code = 404 -> "Not Found"
      [] OTHER -> "Internal Server Error"

NoRespHeaders == [k \in {} |-> ""]

\* What self._http_client.request(...) may return
TransportResponses ==
    {HttpResponse_init(c, Reason(c), t, NoRespHeaders) :
        c \in StatusCodes, t \in {EmptyText, JsonText(RawMeta(1, FALSE))}}

\* The JSON bodies a caller passes to POST, PUT and PATCH
Bodies == {None, RawMeta(1, FALSE)}

\* self._config.api_key
ConfigApiKey == "real"

NoRequest == [method |-> "", headers |-> [k \in {} |-> ""], json |-> None]

\* ApiRequestor.request_raw: [sent, out], the request handed to
\* self._http_client.request and the response it returned
request_raw(method, api_version, api_key, json, headers, response) ==
    [sent |-> [method |-> method,
               headers |-> build_request_headers(headers, api_version, api_key),
               json |-> json],
     out |-> Return(response)]

\* The keyword parameters ApiRequestor.get/post/put/patch/delete declare
ApiRequestor_params(method) ==
    {"base_uri", "path", "api_version", "api_key", "path_params", "query_params",
     "headers", "timeout", "retry"}
    \cup (IF method \in {"POST", "PUT", "PATCH"} THEN {"json"} ELSE {})

\* ApiRequestor.get/post/put/patch/delete called with the keyword arguments
\* `kwargs`: a keyword the method does not declare is a TypeError at the call
ApiRequestor_verb(method, kwargs, api_key, json, response) ==
    IF ~(kwargs \subseteq ApiRequestor_params(method))
    THEN [sent |-> NoRequest, out |-> Raise("TypeError", None)]
    ELSE request_raw(method, "DEFAULT", api_key, json,
                     [given |-> FALSE, map |-> [k \in {} |-> ""]], response)

\* api_requestor.build_exc(response): the typed API error
build_exc(response) ==
    [status_code |-> response.status_code, reason |-> response.reason,
     body |-> response.text]

DEFAULT_ALLOWED_CODES == {200}
DEFAULT_ALLOWED_POST_CODES == {201}
DEFAULT_ALLOWED_DELETE_CODES == {204}

\* The check every verb of BaseController makes on the requestor's result
classify(r, allowed_codes) ==
    IF r.out.exc # "" THEN r
    ELSE IF r.out.val.status_code \notin allowed_codes
    THEN [sent |-> r.sent, out |-> Raise("ApiException", build_exc(r.out.val))]
    ELSE [sent |-> r.sent, out |-> Return(r.out.val)]

\* BaseController.get
BaseController_get(allowed_codes, response) ==
    classify(ApiRequestor_verb("GET",
                 {"base_uri", "path", "api_key", "path_params", "query_params",
                  "filter", "order_by"},
                 ConfigApiKey, None, response),
             allowed_codes)

\* BaseController.post
BaseController_post(allowed_codes, json, response) ==
    classify(ApiRequestor_verb("POST",
                 {"base_uri", "path", "api_key", "path_params", "query_params", "json"},
                 ConfigApiKey, json, response),
             allowed_codes)

\* BaseController.put
BaseController_put(allowed_codes, json, response) ==
    classify(ApiRequestor_verb("PUT",
                 {"base_uri", "path", "api_key", "path_params", "query_params", "json"},
                 ConfigApiKey, json, response),
             allowed_codes)

\* BaseController.patch
BaseController_patch(allowed_codes, json, response) ==
    classify(ApiRequestor_verb("PATCH",
                 {"base_uri", "path", "api_key", "path_params", "query_params", "json"},
                 ConfigApiKey, json, response),
             allowed_codes)

\* BaseController.delete
BaseController_delete(allowed_codes, response) ==
    classify(ApiRequestor_verb("DELETE",
                 {"base_uri", "path", "api_key", "path_params", "query_params"},
                 ConfigApiKey, None, response),
             allowed_codes)

\* The allowed_codes argument: given = FALSE leaves the verb's default
AllowedArgs ==
    {[given |-> FALSE, codes |-> {}]}
    \cup {[given |-> TRUE, codes |-> S] : S \in {{}, {200}, {200, 201}, {204, 404}}}

Allowed(a, default) == IF a.given THEN a.codes ELSE default

NoCall == [verb |-> "", allowed |-> [given |-> FALSE, codes |-> {}],
           response |-> HttpResponse_init(200, "OK", NoText, NoRespHeaders)]

d_Idle ==
    /\ d_call = NoCall
    /\ d_sent = NoRequest
    /\ d_out = NotCalled

\* controller.get(path, allowed_codes=...); `response` is what the transport
\* answers if the request reaches it
Get ==
    \E a \in AllowedArgs, response \in TransportResponses :
        LET r == BaseController_get(Allowed(a, DEFAULT_ALLOWED_CODES), response)
        IN  /\ d_call' = [verb |-> "GET", allowed |-> a, response |-> response]
            /\ d_sent' = r.sent
            /\ d_out' = r.out
            /\ UNCHANGED <<h_vars, r_vars, o_vars, it_vars>>

\* controller.post(path, allowed_codes=..., json=...)
Post ==
    \E a \in AllowedArgs, response \in TransportResponses, json \in Bodies :
        LET r == BaseController_post(Allowed(a, DEFAULT_ALLOWED_POST_CODES), json, response)
        IN  /\ d_call' = [verb |-> "POST", allowed |-> a, response |-> response]
            /\ d_sent' = r.sent
            /\ d_out' = r.out
            /\ UNCHANGED <<h_vars, r_vars, o_vars, it_vars>>

\* controller.put(path, allowed_codes=..., json=...)
Put ==
    \E a \in AllowedArgs, response \in TransportResponses, json \in Bodies :
        LET r == BaseController_put(Allowed(a, DEFAULT_ALLOWED_CODES), json, response)
        IN  /\ d_call' = [verb |-> "PUT", allowed |-> a, response |-> response]
            /\ d_sent' = r.sent
            /\ d_out' = r.out
            /\ UNCHANGED <<h_vars, r_vars, o_vars, it_vars>>

\* controller.patch(path, allowed_codes=..., json=...)
Patch ==
    \E a \in AllowedArgs, response \in TransportResponses, json \in Bodies :
        LET r == BaseController_patch(Allowed(a, DEFAULT_ALLOWED_CODES), json, response)
        IN  /\ d_call' = [verb |-> "PATCH", allowed |-> a, response |-> response]
            /\ d_sent' = r.sent
            /\ d_out' = r.out
            /\ UNCHANGED <<h_vars, r_vars, o_vars, it_vars>>

\* controller.delete(path, allowed_codes=...)
Delete ==
    \E a \in AllowedArgs, response \in TransportResponses :
        LET r == BaseController_delete(Allowed(a, DEFAULT_ALLOWED_DELETE_CODES), response)
        IN  /\ d_call' = [verb |-> "DELETE", allowed |-> a, response |-> response]
            /\ d_sent' = r.sent
            /\ d_out' = r.out
            /\ UNCHANGED <<h_vars, r_vars, o_vars, it_vars>>

\* The dispatcher that materializes: `self` in build_response/build_iterator
Dispatcher == "c1"

\* BaseController._retrieve_json_or_raise(response): [out, self, loads] with
\* self the response afterwards
retrieve_json_or_raise(response) ==
    LET j == HttpResponse_json(response)
    IN  IF j.out.exc # "" THEN j
        ELSE IF j.out.val = None
        THEN [out |-> Raise("ApiException", build_exc(response)), self |-> j.self,
              loads |-> j.loads]
        ELSE j

\* resource.build_obj(obj=json, controller=self) for the parsed body: cls(**obj)
\* needs a mapping
build_from_json(cls, json, controller) ==
    IF json.t # "m" THEN Raise("TypeError", None) ELSE build_obj(cls, json, controller)

\* BaseController.build_response(response, resource=cls): [out, self, loads]
build_response(response, cls) ==
    LET j == retrieve_json_or_raise(response)
    IN  IF j.out.exc # "" THEN j
        ELSE [out |-> build_from_json(cls, j.out.val, Dispatcher), self |-> j.self,
              loads |-> j.loads]

(* One response envelope: constructed by the transport, then read. *)
MaxAccess == 3

EnvelopeTexts ==
    {NoText, EmptyText, Garbage, JsonText(None), JsonText(Map(EmptyMap)),
     JsonText(RawProject(1, 0, "exact")), JsonText(RawProject(2, 1, "unknown"))}

Envelopes ==
    {HttpResponse_init(c, Reason(c), t, NoRespHeaders) :
        c \in {200, 201, 500}, t \in EnvelopeTexts}

r_Idle ==
    /\ r_resp = HttpResponse_init(200, "OK", NoText, NoRespHeaders)
    /\ r_parses = 0
    /\ r_log = <<>>
    /\ r_out = [op |-> "", exc |-> "", val |-> None]

\* HttpResponse(status_code=..., reason=..., text=..., headers=...)
InitResponse ==
    /\ r_resp \in Envelopes
    /\ r_parses = 0
    /\ r_log = <<>>
    /\ r_out = [op |-> "init", exc |-> "", val |-> None]

\* response.json
AccessJson ==
    /\ Len(r_log) < MaxAccess
    /\ LET j == HttpResponse_json(r_resp)
       IN  /\ r_resp' = j.self
           /\ r_parses' = r_parses + j.loads
           /\ r_log' = Append(r_log, j.out)
           /\ r_out' = [op |-> "json", exc |-> j.out.exc, val |-> j.out.val]
    /\ UNCHANGED <<h_vars, d_vars, o_vars, it_vars>>

\* controller.build_response(response, resource=Project)
BuildResponse ==
    /\ Len(r_log) < MaxAccess
    /\ LET b == build_response(r_resp, "Project")
           j == HttpResponse_json(r_resp)
       IN  /\ r_resp' = b.self
           /\ r_parses' = r_parses + b.loads
           /\ r_log' = Append(r_log, j.out)
           /\ r_out' = [op |-> "build_response", exc |-> b.out.exc, val |-> b.out.val]
    /\ UNCHANGED <<h_vars, d_vars, o_vars, it_vars>>

----------------------------------------------------------------------------
(* BaseController.build_iterator and the Page Iterator (caplena.iterator)   *)

MaxPages == 3
MaxPageSize == 2
MaxLimit == 5
NoLimit == 0 - 1

\* The paginated sources: the sizes of the pages, all non-empty
Sources == UNION {[1..n -> 1..MaxPageSize] : n \in 1..MaxPages}

RECURSIVE Sum(_, _)
Sum(sizes, n) == IF n = 0 THEN 0 ELSE sizes[n] + Sum(sizes, n - 1)

Total(sizes) == Sum(sizes, Len(sizes))

\* The raw item at position j of the source, and the object it materializes to
RawItem(j) == RawMeta(j, FALSE)
Item(j) == build_obj("Meta", RawItem(j), Dispatcher).val

\* The caller's page-fetch function: page `page` of the source as an envelope
\* whose body holds results, next_url and count
fetcher(sizes, page) ==
    LET first == IF page \in 1..Len(sizes) THEN Sum(sizes, page - 1) ELSE 0
        n == IF page \in 1..Len(sizes) THEN sizes[page] ELSE 0
        body == [results |-> List([i \in 1..n |-> RawItem(first + i)]),
                 next_url |-> IF page < Len(sizes) THEN Str("next") ELSE None,
                 count |-> Scalar(Total(sizes))]
    IN  HttpResponse_init(200, "OK", JsonText(Map(body)), NoRespHeaders)

\* results_fetcher(page), the closure build_iterator hands to Iterator
results_fetcher(sizes, page) ==
    LET response == fetcher(sizes, page)
        j == retrieve_json_or_raise(response)
    IN  IF j.out.exc # "" THEN Raise(j.out.exc, None)
        ELSE LET json == j.out.val.v
                 results == [i \in 1..Len(json["results"].v) |->
                               build_obj("Meta", json["results"].v[i], Dispatcher).val]
             IN  Return([results |-> results,
                         has_more |-> json["next_url"] # None,
                         count |-> json["count"].v])

\* BaseController.build_iterator(fetcher=..., limit=..., resource=Meta): the
\* Iterator as constructed, PRIMED with an empty buffer
build_iterator(limit) ==
    [state |-> "PRIMED", buffer |-> <<>>, page |-> 0, has_more |-> TRUE,
     count |-> 0, remaining |-> limit]

Spend(remaining) == IF remaining = NoLimit THEN NoLimit ELSE remaining - 1

\* Iterator.__next__: [it, log] after one request for the next item
Iterator_next(self, log, sizes) ==
    IF self.remaining = 0
    THEN [it |-> [self EXCEPT !.state = "EXHAUSTED"], log |-> [log EXCEPT !.ended = TRUE]]
    ELSE IF self.buffer # <<>>
    THEN [it |-> [self EXCEPT !.buffer = Tail(@), !.remaining = Spend(@)],
          log |-> [log EXCEPT !.yielded = Append(@, Head(self.buffer))]]
    ELSE IF self.has_more
    THEN LET page == self.page + 1
             r == results_fetcher(sizes, page)
             asked == [log EXCEPT !.fetched = Append(@, page)]
         IN  IF r.exc # ""
             THEN [it |-> [self EXCEPT !.state = "FETCHING", !.page = page],
                   log |-> [asked EXCEPT !.raised = r.exc]]
             ELSE IF r.val.results = <<>>
             THEN [it |-> [self EXCEPT !.state = IF r.val.has_more THEN "PRIMED"
                                                 ELSE "EXHAUSTED",
                                       !.page = page, !.has_more = r.val.has_more,
                                       !.count = r.val.count],
                   log |-> [asked EXCEPT !.ended = ~r.val.has_more]]
             ELSE [it |-> [self EXCEPT !.state = "PRIMED", !.page = page,
                                       !.buffer = Tail(r.val.results),
                                       !.has_more = r.val.has_more,
                                       !.count = r.val.count,
                                       !.remaining = Spend(@)],
                   log |-> [asked EXCEPT !.yielded = Append(@, Head(r.val.results))]]
    ELSE [it |-> [self EXCEPT !.state = "EXHAUSTED"], log |-> [log EXCEPT !.ended = TRUE]]

NoLog == [fetched |-> <<>>, yielded |-> <<>>, raised |-> "", ended |-> FALSE]

it_Idle ==
    /\ it = build_iterator(0)
    /\ it_src = [sizes |-> <<>>, limit |-> 0]
    /\ it_log = NoLog

\* controller.build_iterator(fetcher=..., limit=..., resource=Meta) over a source
InitIterator ==
    /\ it_src \in {[sizes |-> sz, limit |-> l] :
                     sz \in Sources, l \in {NoLimit} \cup 0..MaxLimit}
    /\ it = build_iterator(it_src.limit)
    /\ it_log = NoLog

\* next(iterator): the consumer asks for the next item, until the iterator
\* signals the end or raises
ItNext ==
    /\ ~it_log.ended
    /\ it_log.raised = ""
    /\ LET n == Iterator_next(it, it_log, it_src.sizes)
       IN  it' = n.it /\ it_log' = n.log
    /\ UNCHANGED <<it_src, h_vars, d_vars, r_vars, o_vars>>

----------------------------------------------------------------------------
(* Specifications, one per component *)

InitHeaders == InitHeadersInputs /\ d_Idle /\ r_Idle /\ InitObject /\ it_Idle
NextHeaders == BuildRequestHeaders
SpecHeaders == InitHeaders /\ [][NextHeaders]_vars

InitDispatch == h_Idle /\ d_Idle /\ r_Idle /\ InitObject /\ it_Idle
NextDispatch == Get \/ Post \/ Put \/ Patch \/ Delete
SpecDispatch == InitDispatch /\ [][NextDispatch]_vars

InitResp == h_Idle /\ d_Idle /\ InitResponse /\ InitObject /\ it_Idle
NextResponse == AccessJson \/ BuildResponse
SpecResponse == InitResp /\ [][NextResponse]_vars

InitObj == h_Idle /\ d_Idle /\ r_Idle /\ InitObject /\ it_Idle
NextObject == Construct \/ BuildObj \/ RefreshFrom \/ SetAttr \/ DelAttr \/ SetRootController
SpecObject == InitObj /\ [][NextObject]_vars

NextController == Construct \/ BuildObj \/ SetController
SpecController == InitObj /\ [][NextController]_vars

InitIter == h_Idle /\ d_Idle /\ r_Idle /\ InitObject /\ InitIterator
NextIterator == ItNext
SpecIterator == InitIter /\ [][NextIterator]_vars

----------------------------------------------------------------------------
(* Claims *)

\* The default allowed status codes the specification gives per verb
DefaultAllowed(verb) ==
    CASE verb = "POST" -> {201}
      [] verb = "DELETE" -> {204}
      [] OTHER -> {200}

Classified ==
    LET allowed == Allowed(d_call.allowed, DefaultAllowed(d_call.verb))
        response == d_call.response
    IN  IF response.status_code \notin allowed
        THEN d_out.exc = "ApiException" /\ d_out.val.status_code = response.status_code
        ELSE d_out = Return(response)

\* C1: every verb call (GET, POST, PUT, PATCH, DELETE) raises the typed API
\* error carrying the status code when the transport's status code is outside
\* the allowed set (explicit, or the verb's default), and otherwise returns the
\* envelope the transport produced, unchanged.
C1_StatusClassified == d_call.verb # "" => Classified

\* The same statement for the four verbs other than GET
C1_ExceptGet == d_call.verb \in {"POST", "PUT", "PATCH", "DELETE"} => Classified

Reserved(h) == [k \in DOMAIN h \cap ReservedHeaders |-> h[k]]
Unreserved(h) == [k \in DOMAIN h \ ReservedHeaders |-> h[k]]

\* C2: the reserved headers of build_request_headers' output do not depend on
\* the caller's headers: any call that differs only in the caller-supplied
\* values of User-Agent, Caplena-API-Key and Caplena-API-Version yields the
\* same reserved headers, and the version header is absent for the default
\* version.
C2_ReservedNotCallerSettable ==
    h_out.done =>
        /\ \A other \in CallerHeaders :
              Unreserved(other.map) = Unreserved(h_in.map) =>
                  Reserved(build_request_headers(other, h_ver, h_key))
                      = Reserved(h_out.headers)
        /\ h_ver = "DEFAULT" => "Caplena-API-Version" \notin DOMAIN h_out.headers

Attached ==
    IF o_last.op = "build_obj" THEN o_last.arg.controller ELSE o_last.arg

\* C3: once a controller has been attached to an object, by the controller
\* setter or by build_obj, every object it owns (in a field or in a list, at
\* any depth) has that controller, and reading it returns that controller.
C3_ControllerPropagates ==
    (o_last.op \in {"controller_set", "build_obj"} /\ o_last.exc = ""
        /\ Attached # NoController) =>
        \A q \in Live :
            Under(q, o_last.path) =>
                controller_get(ObjAt(root, q)) = Return(Attached)

\* C4: a write to a mutable declared field stores the value and adds the
\* field to the dirty set; a write to a declared field that is not mutable
\* raises (AttributeError, the code's ImmutableFieldError) and leaves the
\* whole tree, dirty sets and stored values, as it was.
C4_WriteRule ==
    [][o_last'.op = "setattr" =>
        LET p == o_last'.path
            name == o_last'.arg.name
            before == ObjAt(root, p)
            after == ObjAt(root', p)
        IN  /\ name \in Mutable(before.cls) =>
                  /\ o_last'.exc = ""
                  /\ after._attrs = [k \in DOMAIN before._attrs \cup {name} |->
                                       IF k = name THEN o_last'.arg.value
                                       ELSE before._attrs[k]]
                  /\ after._unpersisted_attributes
                        = before._unpersisted_attributes \cup {name}
            /\ name \in Fields(before.cls) \ Mutable(before.cls) =>
                  /\ o_last'.exc = "AttributeError"
                  /\ root' = root]_vars

\* C4 witness: a write to an immutable field was rejected on an object whose
\* dirty set holds an earlier accepted write
C4_Witness ==
    /\ o_last.op = "setattr"
    /\ o_last.exc = "AttributeError"
    /\ ObjAt(root, o_last.path)._unpersisted_attributes # {}

\* The mapping restricted to the declared fields, nested mappings and lists
\* restricted likewise, with the identifier of an Identified Resource
RECURSIVE Restricted(_, _)
RestrictedValue(nc, raw) ==
    IF nc = "" THEN raw
    ELSE IF raw.t = "m" THEN Restricted(nc, raw)
    ELSE IF raw.t = "l" THEN List([i \in 1..Len(raw.v) |-> Restricted(nc, raw.v[i])])
    ELSE raw

Restricted(cls, raw) ==
    Map([k \in Fields(cls) \cup (IF IsResource(cls) THEN {"id"} ELSE {}) |->
           IF k \in Fields(cls) THEN RestrictedValue(NestedClass(cls, k), raw.v[k])
           ELSE raw.v[k]])

\* No object at or below o stores a key that is not a declared field
RECURSIVE NoUnknownKey(_)
RECURSIVE NoUnknownKeyIn(_)
NoUnknownKeyIn(attr) ==
    IF attr.t = "o" THEN NoUnknownKey(attr.v)
    ELSE IF attr.t = "l" THEN \A i \in 1..Len(attr.v) : NoUnknownKeyIn(attr.v[i])
    ELSE TRUE

NoUnknownKey(o) ==
    /\ DOMAIN o._attrs \subseteq Fields(o.cls)
    /\ \A k \in DOMAIN o._attrs : NoUnknownKeyIn(o._attrs[k])

MaterializedFrom == IF o_last.op = "build_obj" THEN o_last.arg.raw ELSE o_last.arg

\* C5: materializing a mapping that holds every declared field, with any
\* unknown keys, succeeds, stores no unknown key, and the export is the
\* mapping restricted to the declared fields (plus the identifier of an
\* Identified Resource), nested objects and lists exported recursively.
C5_ExportIsRestriction ==
    (o_last.op \in {"init", "build_obj", "refresh_from"}
        /\ Fields(IF o_last.op = "refresh_from" THEN ObjAt(root, o_last.path).cls
                  ELSE "Project") \subseteq DOMAIN MaterializedFrom.v) =>
        /\ o_last.exc = ""
        /\ NoUnknownKey(ObjAt(root, o_last.path))
        /\ dict(ObjAt(root, o_last.path))
              = Return(IF o_last.path = <<>> /\ o_last.op = "refresh_from"
                       THEN Restricted("Project",
                                       Map(SetItem(MaterializedFrom.v, "id", root._id)))
                       ELSE Restricted(ObjAt(root, o_last.path).cls, MaterializedFrom))

\* C5 witness: build_obj of a mapping with unknown keys at every level and a
\* non-empty list of nested objects
C5_Witness ==
    /\ o_last.op = "build_obj"
    /\ o_last.exc = ""
    /\ "junk" \in DOMAIN o_last.arg.raw.v
    /\ Len(root._attrs["columns"].v) >= 1

\* C9: reading the controller of an object raises (ValueError, the code's
\* DetachedObjectError) exactly when no controller was attached to it so far,
\* and otherwise returns the controller attached last.
C9_DetachedUntilAttached ==
    \A p \in Live :
        controller_get(ObjAt(root, p))
            = IF o_given[p] = NoController THEN Raise("ValueError", NoController)
              ELSE Return(o_given[p])

\* C9 witness: a second controller was set on the constructed object while
\* an object it owns never had one
C9_Witness ==
    /\ o_last.op = "controller_set"
    /\ o_last.path = <<>>
    /\ o_given[<<>>] = "c2"
    /\ \E p \in Live : o_given[p] = NoController

\* C10: in every reachable state the dirty set of every object is a subset of
\* the mutable declared fields and holds exactly the mutable fields written
\* since the object's last materialization; it is empty right after a
\* materialization; the field map holds declared fields only.
C10_DirtySet ==
    /\ \A p \in Live :
          LET o == ObjAt(root, p)
          IN  /\ o._unpersisted_attributes \subseteq Mutable(o.cls) \cap Fields(o.cls)
              /\ o._unpersisted_attributes = o_written[p]
              /\ DOMAIN o._attrs \subseteq Fields(o.cls)
    /\ (o_last.op \in {"init", "build_obj", "refresh_from"} /\ o_last.exc = "") =>
          \A p \in Live :
              Under(p, o_last.path) => ObjAt(root, p)._unpersisted_attributes = {}

\* C10 witness: a delete was rejected on a tree with an attached controller
\* whose root has both mutable fields dirty
C10_Witness ==
    /\ o_last.op = "delattr"
    /\ o_last.exc = "ValueError"
    /\ root._controller # NoController
    /\ root._unpersisted_attributes = {"name", "lang"}

\* C6: build_response raises the API error exactly when the body is absent,
\* and for a body that is a JSON object of the resource it returns the
\* materialized object with the dispatcher as its controller.
C6_BuildResponse ==
    r_out.op = "build_response" =>
        /\ r_out.exc = "ApiException" <=> ~Truthy(r_resp.text)
        /\ (r_resp.text.kind = "json" /\ r_resp.text.doc \in RawFor("Project")) =>
              /\ r_out.exc = ""
              /\ r_out.val.cls = "Project"
              /\ r_out.val._controller = Dispatcher

\* C8: the raw text is parsed at most once over any sequence of accesses of
\* the parsed body, construction parses nothing, and every access returns
\* the parsed JSON for a non-empty JSON text and None for an empty body.
C8_ParsedOnce ==
    /\ r_parses <= 1
    /\ r_log = <<>> => r_parses = 0
    /\ r_resp.text.kind # "garbage" =>
          \A i \in 1..Len(r_log) :
              r_log[i] = Return(IF Truthy(r_resp.text) THEN r_resp.text.doc ELSE None)

\* The items a consumer is to receive: the first min(limit, N) of the source
Expected(src) ==
    LET n == IF src.limit = NoLimit \/ src.limit > Total(src.sizes)
             THEN Total(src.sizes) ELSE src.limit
    IN  [j \in 1..n |-> Item(j)]

\* The page that holds item number j of the source (0 for j = 0)
RECURSIVE PageOf(_, _, _)
PageOf(sizes, j, page) ==
    IF j = 0 THEN 0
    ELSE IF j <= Sum(sizes, page) THEN page ELSE PageOf(sizes, j, page + 1)

\* C7: the iterator yields the first min(limit, N) items in source order and
\* then signals the end, without raising; pages are fetched one at a time in
\* increasing order, none beyond the page of the last item yielded.
C7_LazyPages ==
    /\ it_log.raised = ""
    /\ Len(it_log.yielded) <= Len(Expected(it_src))
    /\ it_log.yielded = SubSeq(Expected(it_src), 1, Len(it_log.yielded))
    /\ it_log.ended => it_log.yielded = Expected(it_src)
    /\ it_log.fetched = [i \in 1..Len(it_log.fetched) |-> i]
    /\ Len(it_log.fetched) = PageOf(it_src.sizes, Len(it_log.yielded), 1)

====
